---- MODULE Spec2Model ----
(***************************************************************************)
(* Techions frontend: the VIN-seeded health / telemetry synthesizer and    *)
(* the two pages that use it, pages/VehicleMonitoring.jsx and              *)
(* pages/CustomerDashboard.jsx.                                            *)
(*                                                                         *)
(* Numbers.  Every JavaScript number of the synthesizer is kept in         *)
(* thousandths (49.0 is 49000, 0.65 is 650, 12.1 volts is 12100), the      *)
(* resolution of the finest rounding in the code (prediction_risk, three   *)
(* decimals).  Times are milliseconds.                                     *)
(* Strings.  A VIN is the sequence of its characters, "" is << >>.         *)
(***************************************************************************)
EXTENDS Integers, Sequences, FiniteSets, TLC

(***************************************************************************)
(* JavaScript primitives used by the two pages                             *)
(***************************************************************************)

\* String.prototype.charCodeAt(0) of the characters that occur in the VINs
CharCode ==
  [c \in {"0", "1", "2", "3", "9", "A", "B", "C", "D", "E", "I", "M", "N",
          "O", "V", "X", "_"} |->
     CASE c = "0" -> 48 [] c = "1" -> 49 [] c = "2" -> 50 [] c = "3" -> 51
       [] c = "9" -> 57 [] c = "A" -> 65 [] c = "B" -> 66 [] c = "C" -> 67
       [] c = "D" -> 68 [] c = "E" -> 69 [] c = "I" -> 73 [] c = "M" -> 77
       [] c = "N" -> 78 [] c = "O" -> 79 [] c = "V" -> 86 [] c = "X" -> 88
       [] c = "_" -> 95]

\* the character class \d
IsDigit(c) == CharCode[c] >= 48 /\ CharCode[c] <= 57

\* vin.match(/\d+/)?.[0] : the first maximal run of digits, << >> for no match
MatchDigits(s) ==
  LET starts == {k \in 1..Len(s) : IsDigit(s[k])}
  IN  IF starts = {} THEN << >>
      ELSE LET a == CHOOSE k \in starts : \A j \in starts : k <= j
               b == CHOOSE k \in a..Len(s) :
                      /\ \A j \in a..k : IsDigit(s[j])
                      /\ (k = Len(s) \/ ~IsDigit(s[k + 1]))
           IN  SubSeq(s, a, b)

\* String.prototype.includes
Includes(s, pat) ==
  \E k \in 0..(Len(s) - Len(pat)) : SubSeq(s, k + 1, k + Len(pat)) = pat

\* vin.split('').reduce((acc, char) => acc + char.charCodeAt(0), 0)
RECURSIVE CharCodeSum(_)
CharCodeSum(s) ==
  IF s = << >> THEN 0 ELSE CharCode[Head(s)] + CharCodeSum(Tail(s))

MathMax(a, b) == IF a >= b THEN a ELSE b
MathMin(a, b) == IF a <= b THEN a ELSE b

\* a variant of RoundDecimals that forgets the division: Math.round(x * 10^d)
RoundWithoutDividing(x, d) ==
  LET q == IF d = 1 THEN 100 ELSE IF d = 2 THEN 10 ELSE 1
  IN  ((x + (q \div 2)) \div q) * q * (1000 \div q)

\* Math.round(x * 10^d) / 10^d on a value kept in thousandths (d in 1..3);
\* Math.round rounds a half up
RoundDecimals(x, d) ==
  LET q == IF d = 1 THEN 100 ELSE IF d = 2 THEN 10 ELSE 1
  IN  ((x + (q \div 2)) \div q) * q

\* a variant of Reverse that leaves the array as it is
NotReversed(s) == s

\* Array.prototype.reverse
Reverse(s) == [k \in 1..Len(s) |-> s[Len(s) + 1 - k]]

\* Date.prototype.toISOString: the instant written as fields (hours, minutes,
\* milliseconds of the minute); new Date(string) reads them back
ToISOString(t) == <<t \div 3600000, (t % 3600000) \div 60000, t % 60000>>
DateParse(iso) == iso[1] * 3600000 + iso[2] * 60000 + iso[3]

\* the literals '001', '002', 'VIN001', 'VIN002'
Str001 == <<"0", "0", "1">>
Str002 == <<"0", "0", "2">>
StrVIN001 == <<"V", "I", "N", "0", "0", "1">>
StrVIN002 == <<"V", "I", "N", "0", "0", "2">>

\* a || b on strings: the empty string is falsy
OrElse(a, b) == IF a = << >> THEN b ELSE a

(***************************************************************************)
(* Telemetry records                                                       *)
(***************************************************************************)

\* a field the backend left out of a record (undefined / null in JavaScript)
Undefined == -1

\* the key both pages sort by: new Date(a.timestamp || a.created_at || 0);
\* every record of the model carries a timestamp
RecordDate(r) == DateParse(r.timestamp)

\* inserts r behind every record that is not older than r
RECURSIVE InsertByDateDesc(_, _)
InsertByDateDesc(sorted, r) ==
  IF sorted = << >> THEN <<r>>
  ELSE IF RecordDate(Head(sorted)) >= RecordDate(r)
       THEN <<Head(sorted)>> \o InsertByDateDesc(Tail(sorted), r)
       ELSE <<r>> \o sorted

\* a variant of SortByDateDesc that leaves the records in the order of the
\* response
NotSorted(s) == s

\* Array.prototype.sort((a, b) => dateB - dateA): stable, newest first
RECURSIVE SortByDateDesc(_)
SortByDateDesc(s) ==
  IF s = << >> THEN << >>
  ELSE InsertByDateDesc(SortByDateDesc(SubSeq(s, 1, Len(s) - 1)), s[Len(s)])

(***************************************************************************)
(* pages/VehicleMonitoring.jsx: the synthesizer                            *)
(***************************************************************************)

\* the number of samples generateSampleTelemetry makes
SampleCount == 20

\* a variant of HealthBand whose second limit is 80 instead of 70
HealthBandUpToEighty(healthScore) ==
  IF healthScore < 50000 THEN "low"
  ELSE IF healthScore < 80000 THEN "medium"
  ELSE "good"

\* the branch the if / else if / else of the loop takes for a health score
HealthBand(healthScore) ==
  IF healthScore < 50000 THEN "low"
  ELSE IF healthScore < 70000 THEN "medium"
  ELSE "good"

\* a variant of BandFields whose low branch takes the engine temperature
\* modulo 9 instead of 8
BandFieldsModuloNine(band, k) ==
  IF band = "low"
  THEN [engineTemp |-> (95 + (k % 9)) * 1000,
        oilPressure |-> (28 + (k % 5)) * 1000,
        batteryVoltage |-> 11900 + (k % 3) * 100,
        vibrationLevel |-> 850 + (k % 2) * 100,
        errorCodes |-> <<"P0300", "P0171">>,
        anomalyDetected |-> TRUE,
        predictionRisk |-> 650 + (k % 10) * 10]
  ELSE IF band = "medium"
  THEN [engineTemp |-> (88 + (k % 6)) * 1000,
        oilPressure |-> (32 + (k % 6)) * 1000,
        batteryVoltage |-> 12200 + (k % 3) * 100,
        vibrationLevel |-> 650 + (k % 2) * 100,
        errorCodes |-> << >>,
        anomalyDetected |-> ((k % 3) = 0),
        predictionRisk |-> 350 + (k % 10) * 10]
  ELSE [engineTemp |-> (85 + (k % 5)) * 1000,
        oilPressure |-> (38 + (k % 5)) * 1000,
        batteryVoltage |-> 12600 + (k % 2) * 100,
        vibrationLevel |-> 550 + (k % 2) * 50,
        errorCodes |-> << >>,
        anomalyDetected |-> FALSE,
        predictionRisk |-> 150 + (k % 5) * 10]

\* the assignments of that branch, k being vinSeed + i
BandFields(band, k) ==
  IF band = "low"
  THEN [engineTemp |-> (95 + (k % 8)) * 1000,
        oilPressure |-> (28 + (k % 5)) * 1000,
        batteryVoltage |-> 11900 + (k % 3) * 100,
        vibrationLevel |-> 850 + (k % 2) * 100,
        errorCodes |-> <<"P0300", "P0171">>,
        anomalyDetected |-> TRUE,
        predictionRisk |-> 650 + (k % 10) * 10]
  ELSE IF band = "medium"
  THEN [engineTemp |-> (88 + (k % 6)) * 1000,
        oilPressure |-> (32 + (k % 6)) * 1000,
        batteryVoltage |-> 12200 + (k % 3) * 100,
        vibrationLevel |-> 650 + (k % 2) * 100,
        errorCodes |-> << >>,
        anomalyDetected |-> ((k % 3) = 0),
        predictionRisk |-> 350 + (k % 10) * 10]
  ELSE [engineTemp |-> (85 + (k % 5)) * 1000,
        oilPressure |-> (38 + (k % 5)) * 1000,
        batteryVoltage |-> 12600 + (k % 2) * 100,
        vibrationLevel |-> 550 + (k % 2) * 50,
        errorCodes |-> << >>,
        anomalyDetected |-> FALSE,
        predictionRisk |-> 150 + (k % 5) * 10]

\* a variant of SampleAt whose mileage grows with the seconds of the clock
SampleAtClockMileage(vin, baseHealth, vinSeed, i, now) ==
  LET variation == ((vinSeed + i) % 7) - 3
      healthScore == MathMax(30000, MathMin(100000, baseHealth + variation * 1000))
      f == BandFields(HealthBand(healthScore), vinSeed + i)
  IN  [vin |-> vin,
       timestamp |-> ToISOString(now - i * 60000),
       engine_temperature |-> RoundDecimals(f.engineTemp, 1),
       oil_pressure |-> RoundDecimals(f.oilPressure, 1),
       vibration_level |-> RoundDecimals(f.vibrationLevel, 2),
       battery_voltage |-> RoundDecimals(f.batteryVoltage, 2),
       speed |-> 40 + ((vinSeed + i) % 30),
       mileage |-> 15000 + i * 10 + ((now \div 1000) % 60),
       health_score |-> RoundDecimals(healthScore, 1),
       prediction_risk |-> RoundDecimals(f.predictionRisk, 3),
       error_codes |-> f.errorCodes,
       anomaly_detected |-> f.anomalyDetected]

\* a variant of SampleAt whose speed is taken modulo 20 instead of 30
SampleAtSpeedModulo20(vin, baseHealth, vinSeed, i, now) ==
  LET variation == ((vinSeed + i) % 7) - 3
      healthScore == MathMax(30000, MathMin(100000, baseHealth + variation * 1000))
      f == BandFields(HealthBand(healthScore), vinSeed + i)
  IN  [vin |-> vin,
       timestamp |-> ToISOString(now - i * 60000),
       engine_temperature |-> RoundDecimals(f.engineTemp, 1),
       oil_pressure |-> RoundDecimals(f.oilPressure, 1),
       vibration_level |-> RoundDecimals(f.vibrationLevel, 2),
       battery_voltage |-> RoundDecimals(f.batteryVoltage, 2),
       speed |-> 40 + ((vinSeed + i) % 20),
       mileage |-> 15000 + i * 10,
       health_score |-> RoundDecimals(healthScore, 1),
       prediction_risk |-> RoundDecimals(f.predictionRisk, 3),
       error_codes |-> f.errorCodes,
       anomaly_detected |-> f.anomalyDetected]

\* a variant of SampleAt whose clamp starts at 50 instead of 30
SampleAtClampFrom50(vin, baseHealth, vinSeed, i, now) ==
  LET variation == ((vinSeed + i) % 7) - 3
      healthScore == MathMax(50000, MathMin(100000, baseHealth + variation * 1000))
      f == BandFields(HealthBand(healthScore), vinSeed + i)
  IN  [vin |-> vin,
       timestamp |-> ToISOString(now - i * 60000),
       engine_temperature |-> RoundDecimals(f.engineTemp, 1),
       oil_pressure |-> RoundDecimals(f.oilPressure, 1),
       vibration_level |-> RoundDecimals(f.vibrationLevel, 2),
       battery_voltage |-> RoundDecimals(f.batteryVoltage, 2),
       speed |-> 40 + ((vinSeed + i) % 30),
       mileage |-> 15000 + i * 10,
       health_score |-> RoundDecimals(healthScore, 1),
       prediction_risk |-> RoundDecimals(f.predictionRisk, 3),
       error_codes |-> f.errorCodes,
       anomaly_detected |-> f.anomalyDetected]

\* the body of the for loop of generateSampleTelemetry for one i; speed and
\* mileage are whole numbers and are kept as such
SampleAt(vin, baseHealth, vinSeed, i, now) ==
  LET variation == ((vinSeed + i) % 7) - 3
      healthScore == MathMax(30000, MathMin(100000, baseHealth + variation * 1000))
      f == BandFields(HealthBand(healthScore), vinSeed + i)
  IN  [vin |-> vin,
       timestamp |-> ToISOString(now - i * 60000),
       engine_temperature |-> RoundDecimals(f.engineTemp, 1),
       oil_pressure |-> RoundDecimals(f.oilPressure, 1),
       vibration_level |-> RoundDecimals(f.vibrationLevel, 2),
       battery_voltage |-> RoundDecimals(f.batteryVoltage, 2),
       speed |-> 40 + ((vinSeed + i) % 30),
       mileage |-> 15000 + i * 10,
       health_score |-> RoundDecimals(healthScore, 1),
       prediction_risk |-> RoundDecimals(f.predictionRisk, 3),
       error_codes |-> f.errorCodes,
       anomaly_detected |-> f.anomalyDetected]

\* generateSampleTelemetry(vin), called when the clock reads now
generateSampleTelemetry(vin, now) ==
  LET vinNumber == OrElse(MatchDigits(vin), Str001)
      baseHealth == IF vinNumber = Str001 \/ Includes(vin, StrVIN001) THEN 48000
                    ELSE IF vinNumber = Str002 \/ Includes(vin, StrVIN002) THEN 72000
                    ELSE 82000
      vinSeed == CharCodeSum(vin)
      data == [j \in 1..SampleCount |-> SampleAt(vin, baseHealth, vinSeed, j - 1, now)]
  IN  Reverse(data)

\* getLatestHealthScore(vin) of a render whose telemetry state is tel
getLatestHealthScore(vin, tel) ==
  LET vinNumber == OrElse(MatchDigits(vin), Str001)
      baseHealth == IF vinNumber = Str001 \/ Includes(vin, StrVIN001) THEN 48000
                    ELSE IF vinNumber = Str002 \/ Includes(vin, StrVIN002) THEN 72000
                    ELSE 82000
      vinSeed == CharCodeSum(vin)
      variation == (vinSeed % 7) - 3
      healthScore == MathMax(30000, MathMin(100000, baseHealth + variation * 1000))
      generated == RoundDecimals(healthScore, 1)
  IN  IF vin = << >> \/ Len(tel) = 0 THEN generated
      ELSE IF tel[1].health_score # Undefined THEN tel[1].health_score
      ELSE generated

(***************************************************************************)
(* pages/CustomerDashboard.jsx: the health-score half                      *)
(***************************************************************************)

\* a variant of generateSampleTelemetryForHealth whose low tier has drifted
\* from the other copies: base 50 instead of 48
generateSampleTelemetryForHealthBase50(vin, now) ==
  IF vin = << >>
  THEN [health_score |-> 75000, timestamp |-> ToISOString(now)]
  ELSE LET vinNumber == OrElse(MatchDigits(vin), Str001)
           baseHealth == IF vinNumber = Str001 \/ Includes(vin, StrVIN001) THEN 50000
                         ELSE IF vinNumber = Str002 \/ Includes(vin, StrVIN002) THEN 72000
                         ELSE 82000
           vinSeed == CharCodeSum(vin)
           variation == (vinSeed % 7) - 3
           healthScore == MathMax(30000, MathMin(100000, baseHealth + variation * 1000))
       IN  [health_score |-> RoundDecimals(healthScore, 1),
            timestamp |-> ToISOString(now)]

\* generateSampleTelemetryForHealth(vin), called when the clock reads now
generateSampleTelemetryForHealth(vin, now) ==
  IF vin = << >>
  THEN [health_score |-> 75000, timestamp |-> ToISOString(now)]
  ELSE LET vinNumber == OrElse(MatchDigits(vin), Str001)
           baseHealth == IF vinNumber = Str001 \/ Includes(vin, StrVIN001) THEN 48000
                         ELSE IF vinNumber = Str002 \/ Includes(vin, StrVIN002) THEN 72000
                         ELSE 82000
           vinSeed == CharCodeSum(vin)
           variation == (vinSeed % 7) - 3
           healthScore == MathMax(30000, MathMin(100000, baseHealth + variation * 1000))
       IN  [health_score |-> RoundDecimals(healthScore, 1),
            timestamp |-> ToISOString(now)]

\* x || y on numbers: undefined, null and 0 are falsy
NumOrElse(x, y) == IF x = Undefined \/ x = 0 THEN y ELSE x

\* getHealthScoreForVehicle(vin, telemetry)
getHealthScoreForVehicle(vin, tel, now) ==
  IF Len(tel) = 0 THEN generateSampleTelemetryForHealth(vin, now).health_score
  ELSE LET latest == SortByDateDesc(tel)[1]
       IN  NumOrElse(latest.health_score,
                     generateSampleTelemetryForHealth(vin, now).health_score)

\* the health the Vehicle Health Overview card renders for a vehicle when the
\* vehicleHealth state is health
RenderedHealth(vin, health) ==
  IF vin \in DOMAIN health /\ health[vin].health_score # Undefined
  THEN health[vin].health_score
  ELSE LET vinNumber == OrElse(MatchDigits(vin), Str001)
       IN  IF vinNumber = Str001 \/ Includes(vin, StrVIN001) THEN 48000
           ELSE IF vinNumber = Str002 \/ Includes(vin, StrVIN002) THEN 72000
           ELSE 75000

(***************************************************************************)
(* The world the pages run in: the clock, the backend, the router          *)
(***************************************************************************)

\* the VINs the backend may hold: the literal cases of the two pages, VINs of
\* the third tier, VINs that match both rules or only the substring rule, a
\* VIN whose first digit run is not its last, a VIN without digits and ""
VINS ==
  { StrVIN001, StrVIN002,
    <<"V", "I", "N", "9", "9", "9">>,
    <<"D", "E", "M", "O", "_", "V", "I", "N", "_", "0", "0", "1">>,
    <<"X", "0", "0", "2">>,
    <<"0", "0", "2", "V", "I", "N", "0", "0", "1">>,
    <<"V", "I", "N", "0", "0", "1", "2">>,
    <<"A", "1", "B", "0", "0", "1">>,
    <<"A", "B", "C">>,
    << >> }

\* what getCustomerVehicles may return: no vehicle, one vehicle, or two
Fleets ==
  {<< >>} \cup {<<[vin |-> v]>> : v \in VINS}
          \cup {<<[vin |-> <<"V", "I", "N", "9", "9", "9">>], [vin |-> StrVIN001]>>}

\* what new Date() may read (milliseconds): the samples of a series made at
\* either time reach back over the hour
StartTime == 3600000 + 5 * 60000 + 1500
LaterTime == StartTime + 45 * 1000
ClockReadings == {StartTime, LaterTime}

\* a record of the backend's telemetry collection
BackendRecord(vin, at, health) ==
  [vin |-> vin,
   timestamp |-> ToISOString(at),
   engine_temperature |-> 91000,
   oil_pressure |-> 35000,
   vibration_level |-> 700,
   battery_voltage |-> 12400,
   speed |-> 55,
   mileage |-> 12000,
   health_score |-> health,
   prediction_risk |-> 300,
   error_codes |-> << >>,
   anomaly_detected |-> FALSE]

\* the VINs the backend may hold telemetry for
VinsWithTelemetry == {StrVIN002, <<"V", "I", "N", "9", "9", "9">>}

\* what the backend may hold for a VIN: nothing; two records, the older one
\* first; and, for VIN002, a record without health_score, or two records of
\* which the newer has the health_score 0
BackendSeries(vin) ==
  IF vin \in VinsWithTelemetry
  THEN { << >>,
         <<BackendRecord(vin, StartTime - 7 * 60000, 61500),
           BackendRecord(vin, StartTime - 6 * 60000, 88000)>> }
       \cup
       (IF vin = StrVIN002
        THEN { <<BackendRecord(vin, StartTime - 6 * 60000, Undefined)>>,
               <<BackendRecord(vin, StartTime - 6 * 60000, 0),
                 BackendRecord(vin, StartTime - 7 * 60000, 35000)>> }
        ELSE { })
  ELSE { << >> }

VinsOf(list) == {list[k].vin : k \in 1..Len(list)}

\* the series generateSampleTelemetry returns for each VIN at each reading of
\* the clock
SampleSeries ==
  [v \in VINS |-> [at \in ClockReadings |-> generateSampleTelemetry(v, at)]]

(***************************************************************************)
(* State                                                                   *)
(***************************************************************************)

VARIABLES
  backendVehicles,   \* GET /vehicles/customer/<id>: the customer's vehicles
  backendTelemetry,  \* GET /telemetry/<vin>, for the VINs of these vehicles
  vehiclesServiceUp, \* whether GET /vehicles/customer/<id> answers, or fails
                     \* for as long as the pages are used
  page,              \* the route shown: "dashboard" is /, "monitoring" is /monitoring
  seenHealth,        \* the health_score entries of vehicleHealth when the
                     \* dashboard was last left
  vehicles,          \* VehicleMonitoring: useState([])
  selectedVehicle,   \* VehicleMonitoring: useState(null)
  telemetry,         \* VehicleMonitoring: useState([])
  loading,           \* VehicleMonitoring: useState(false)
  vehiclesCall,      \* loadCustomerVehicles: "none"; "pending" at its await;
                     \* "effect" when its render is committed and the effect
                     \* of the selection has not run yet; "done"
  telemetryCalls,    \* the loadTelemetry calls awaiting their response: how
                     \* many for each VIN
  telemetrySource,   \* the branch of loadTelemetry that last set telemetry
  prediction,        \* VehicleMonitoring: useState(null)
  predictionCalls,   \* the runPrediction calls at an await: how many of each
  myVehicles,        \* CustomerDashboard: useState([])
  vehicleHealth,     \* CustomerDashboard: useState({})
  dashLoading,       \* CustomerDashboard: useState(true)
  dashPc,            \* the await loadCustomerData is at, "idle" outside it
  vehiclesList,      \* loadCustomerData's local vehiclesList
  healthData,        \* loadCustomerData's local healthData
  allAppointments,   \* loadCustomerData's local allAppointments
  appointments,      \* CustomerDashboard: useState([])
  alerts,            \* CustomerDashboard: useState([])
  showServiceCenterModal,   \* CustomerDashboard: useState(false)
  selectedAlertVehicle,     \* CustomerDashboard: useState(null)
  rescheduleAppointmentId,  \* CustomerDashboard: useState(null); null is ""
                            \* here, both are falsy (isRescheduling goes with it)
  bookingCall        \* the handleConfirmBooking call of the modal: Null when
                     \* there is none (scheduling is false), else the await
                     \* it is at

worldVars == <<backendVehicles, backendTelemetry, vehiclesServiceUp>>
monitorVars == <<vehicles, selectedVehicle, telemetry, loading, vehiclesCall,
                 telemetryCalls, telemetrySource, prediction, predictionCalls>>
modalVars == <<showServiceCenterModal, selectedAlertVehicle,
               rescheduleAppointmentId>>
dashVars == <<myVehicles, vehicleHealth, dashLoading, dashPc, vehiclesList,
              healthData, allAppointments, appointments, alerts, modalVars,
              bookingCall>>
vars == <<worldVars, page, seenHealth, monitorVars, dashVars>>

\* JavaScript's null
Null == [null |-> TRUE]

\* how many calls of loadTelemetry and runPrediction may be at an await at a
\* time
MaxCallsInFlight == 2

\* the number of calls awaiting their response
RECURSIVE InFlight(_)
InFlight(calls) ==
  IF DOMAIN calls = {} THEN 0
  ELSE LET v == CHOOSE x \in DOMAIN calls : TRUE
       IN  calls[v] + InFlight([x \in DOMAIN calls \ {v} |-> calls[x]])

AddCall(calls, vin) ==
  IF vin \in DOMAIN calls THEN [calls EXCEPT ![vin] = @ + 1]
  ELSE (vin :> 1) @@ calls

RemoveCall(calls, vin) ==
  IF calls[vin] > 1 THEN [calls EXCEPT ![vin] = @ - 1]
  ELSE [x \in DOMAIN calls \ {vin} |-> calls[x]]

\* GET /telemetry/<vin>
TelemetryOf(vin) ==
  IF vin \in DOMAIN backendTelemetry THEN backendTelemetry[vin] ELSE << >>

\* VehicleMonitoring as mounted: the initial values of its useState calls
MonitoringMounted ==
  /\ vehicles = << >>
  /\ selectedVehicle = Null
  /\ telemetry = << >>
  /\ loading = FALSE
  /\ vehiclesCall = "none"
  /\ telemetryCalls = << >>
  /\ telemetrySource = "none"
  /\ prediction = Null
  /\ predictionCalls = << >>

\* CustomerDashboard as mounted
DashboardMounted ==
  /\ myVehicles = << >>
  /\ vehicleHealth = << >>
  /\ dashLoading = TRUE
  /\ dashPc = "idle"
  /\ vehiclesList = << >>
  /\ healthData = << >>
  /\ allAppointments = << >>
  /\ appointments = << >>
  /\ alerts = << >>
  /\ showServiceCenterModal = FALSE
  /\ selectedAlertVehicle = Null
  /\ rescheduleAppointmentId = ""
  /\ bookingCall = Null

Init ==
  /\ backendVehicles \in Fleets
  /\ backendTelemetry \in
       {f \in [VinsOf(backendVehicles) -> UNION {BackendSeries(v) : v \in VINS}] :
          \A v \in DOMAIN f : f[v] \in BackendSeries(v)}
  /\ vehiclesServiceUp \in BOOLEAN
  /\ ~vehiclesServiceUp => backendVehicles = << >>
  /\ page \in {"dashboard", "monitoring"}
  /\ seenHealth = << >>
  /\ MonitoringMounted
  /\ DashboardMounted

\* VehicleMonitoring is unmounted, or mounted afresh
MonitoringReset ==
  /\ vehicles' = << >>
  /\ selectedVehicle' = Null
  /\ telemetry' = << >>
  /\ loading' = FALSE
  /\ vehiclesCall' = "none"
  /\ telemetryCalls' = << >>
  /\ telemetrySource' = "none"
  /\ prediction' = Null
  /\ predictionCalls' = << >>

\* CustomerDashboard is unmounted, or mounted afresh
DashboardReset ==
  /\ myVehicles' = << >>
  /\ vehicleHealth' = << >>
  /\ dashLoading' = TRUE
  /\ dashPc' = "idle"
  /\ vehiclesList' = << >>
  /\ healthData' = << >>
  /\ allAppointments' = << >>
  /\ appointments' = << >>
  /\ alerts' = << >>
  /\ showServiceCenterModal' = FALSE
  /\ selectedAlertVehicle' = Null
  /\ rescheduleAppointmentId' = ""
  /\ bookingCall' = Null

\* the user follows a link of the layout to the other page.  The router
\* unmounts the page shown, whose state is gone and whose pending requests
\* reach no component any more, and mounts the other one afresh
Navigate(to) ==
  /\ to # page
  /\ page' = to
  /\ seenHealth' = IF page = "dashboard"
                   THEN [v \in DOMAIN vehicleHealth |-> vehicleHealth[v].health_score]
                   ELSE seenHealth
  /\ MonitoringReset
  /\ DashboardReset
  /\ UNCHANGED worldVars

(***************************************************************************)
(* pages/VehicleMonitoring.jsx: the component                              *)
(***************************************************************************)

\* getDemoVehicles(customerId), the same two vehicles on both pages
getDemoVehicles == <<[vin |-> StrVIN001], [vin |-> StrVIN002]>>

\* useEffect(..., [selectedVehicle]) for a selection sv that is not null: it
\* clears the prediction, empties telemetry and calls loadTelemetry, which
\* sets loading and awaits getTelemetry(sv.vin)
SelectedVehicleEffect(sv) ==
  /\ InFlight(telemetryCalls) + InFlight(predictionCalls)
       < MaxCallsInFlight
  /\ prediction' = Null
  /\ telemetry' = << >>
  /\ loading' = TRUE
  /\ telemetryCalls' = AddCall(telemetryCalls, sv.vin)

\* the mount effect: loadCustomerVehicles up to its await
loadCustomerVehicles ==
  /\ page = "monitoring"
  /\ vehiclesCall = "none"
  /\ vehiclesCall' = "pending"
  /\ loading' = TRUE
  /\ UNCHANGED <<vehicles, selectedVehicle, telemetry, telemetryCalls,
                 telemetrySource, prediction, predictionCalls>>
  /\ UNCHANGED <<worldVars, page, seenHealth, dashVars>>

\* loadCustomerVehicles from its await on: the request succeeded (ok) or threw.
\* Either way a first vehicle is selected, and the finally block resets
\* loading.  The render of these updates is committed; the effect of the
\* selection, which no user event caused, runs later
CustomerVehiclesResponse(ok) ==
  /\ page = "monitoring"
  /\ vehiclesCall = "pending"
  /\ ok = vehiclesServiceUp
  /\ LET list == IF ok /\ Len(backendVehicles) > 0
                 THEN backendVehicles
                 ELSE getDemoVehicles
     IN  /\ vehicles' = list
         /\ selectedVehicle' = list[1]
  /\ loading' = FALSE
  /\ vehiclesCall' = "effect"
  /\ UNCHANGED <<telemetry, telemetryCalls, telemetrySource, prediction,
                 predictionCalls>>
  /\ UNCHANGED <<worldVars, page, seenHealth, dashVars>>

\* the effect of the first selection runs
MountSelectionEffect ==
  /\ page = "monitoring"
  /\ vehiclesCall = "effect"
  /\ SelectedVehicleEffect(selectedVehicle)
  /\ vehiclesCall' = "done"
  /\ UNCHANGED <<vehicles, selectedVehicle, telemetrySource, predictionCalls>>
  /\ UNCHANGED <<worldVars, page, seenHealth, dashVars>>

\* vehicles.find(v => v.vin === value)
FindVehicle(list, value) ==
  IF \E k \in 1..Len(list) : list[k].vin = value
  THEN list[CHOOSE k \in 1..Len(list) :
              /\ list[k].vin = value
              /\ \A j \in 1..(k - 1) : list[j].vin # value]
  ELSE Null

\* onChange of the vehicle <select> with the option of value chosen (the
\* placeholder option has the value ''), and the effect of the new selection,
\* which runs with the render a user event caused (an effect still to run
\* runs before it)
SelectVehicle(value) ==
  /\ page = "monitoring"
  /\ vehiclesCall = "done"
  /\ Len(vehicles) > 0
  /\ LET found == FindVehicle(vehicles, value)
     IN  /\ found # selectedVehicle
         /\ selectedVehicle' = found
         /\ IF found = Null
            THEN UNCHANGED <<telemetry, loading, telemetryCalls, prediction>>
            ELSE SelectedVehicleEffect(found)
  /\ UNCHANGED <<vehicles, vehiclesCall, telemetrySource, predictionCalls>>
  /\ UNCHANGED <<worldVars, page, seenHealth, dashVars>>

\* loadTelemetry from its await on, for a call made with the vehicle of VIN
\* vin selected: the request succeeded (ok) or threw; new Date() reads at
LoadTelemetryCompletes(vin, ok, at) ==
  /\ LET telemetryData == SortByDateDesc(TelemetryOf(vin))
     IN  IF ok /\ Len(telemetryData) > 0
         THEN /\ telemetry' = telemetryData
              /\ telemetrySource' = "backend"
         ELSE /\ telemetry' = SampleSeries[vin][at]
              /\ telemetrySource' = "sample"
  /\ loading' = FALSE

\* a loadTelemetry call of the selection effect gets its response
TelemetryResponse(vin, ok, at) ==
  /\ page = "monitoring"
  /\ vin \in DOMAIN telemetryCalls
  /\ telemetryCalls' = RemoveCall(telemetryCalls, vin)
  /\ LoadTelemetryCompletes(vin, ok, at)
  /\ UNCHANGED <<vehicles, selectedVehicle, vehiclesCall, prediction,
                 predictionCalls>>
  /\ UNCHANGED <<worldVars, page, seenHealth, dashVars>>

\* the Health Score card of the page
MonitoringHealthShown == getLatestHealthScore(selectedVehicle.vin, telemetry)

\* what predictionService.predict may resolve to: a response with status
\* 'success'; one without status but with a risk_score; one with neither
PredictResponses ==
  { [status |-> "success", risk_score |-> 420, health_score |-> 61500],
    [status |-> "none", risk_score |-> 420, health_score |-> 61500],
    [status |-> "none", risk_score |-> Undefined, health_score |-> Undefined] }

\* the risk score of the catch block of runPrediction for the record
\* latestTelemetry, which is {} (Null here) when telemetry[0] is undefined
FallbackRisk(latestTelemetry) ==
  LET has == latestTelemetry # Null
      healthScore == IF has THEN NumOrElse(latestTelemetry.health_score, 75000)
                     ELSE 75000
      byHealth == IF healthScore < 40000 THEN 750
                  ELSE IF healthScore < 60000 THEN 600
                  ELSE IF healthScore < 70000 THEN 400
                  ELSE IF healthScore < 80000 THEN 250
                  ELSE 100
      riskScore == byHealth
        + (IF has /\ latestTelemetry.engine_temperature > 100000 THEN 150 ELSE 0)
        + (IF has /\ latestTelemetry.oil_pressure < 30000 THEN 150 ELSE 0)
        + (IF has /\ latestTelemetry.battery_voltage < 12000 THEN 100 ELSE 0)
        + (IF has /\ latestTelemetry.anomaly_detected THEN 100 ELSE 0)
  IN  MathMin(1000, riskScore)

\* the prediction the catch block sets.  vin and path are not fields of the
\* object: they record the VIN the call was made for and the way it took
\* ("noTelemetry" for the error thrown at line 255)
FallbackPrediction(vin, latestTelemetry, path) ==
  LET riskScore == FallbackRisk(latestTelemetry)
  IN  [risk_score |-> riskScore,
       recommendation |->
         IF riskScore > 600 THEN "High risk detected. Immediate service recommended within 3-5 days."
         ELSE IF riskScore > 400 THEN "Moderate risk detected. Schedule service within 7-10 days."
         ELSE IF riskScore > 300 THEN "Low risk detected. Schedule preventive maintenance within 14-21 days."
         ELSE "Vehicle is in good condition. Regular maintenance recommended.",
       predicted_failure_window |->
         IF riskScore > 600 THEN "3-5 days"
         ELSE IF riskScore > 400 THEN "7-14 days"
         ELSE IF riskScore > 300 THEN "30-60 days"
         ELSE "No immediate risk detected",
       health_score |-> IF latestTelemetry # Null
                        THEN NumOrElse(latestTelemetry.health_score, 75000)
                        ELSE 75000,
       vin |-> vin,
       path |-> path]

\* the prediction the try block sets from a response of the service, which
\* carries neither recommendation nor predicted_failure_window
ServicePrediction(vin, response) ==
  [risk_score |-> NumOrElse(response.risk_score, 0),
   recommendation |-> "Analysis complete",
   predicted_failure_window |-> "No immediate risk detected",
   health_score |-> response.health_score,
   vin |-> vin,
   path |-> "service"]

\* the runPrediction calls in flight that are followed to their end: at
\* most one at a time, any call can be the one
ObservedCalls == {call \in DOMAIN predictionCalls : call.observed}

\* onClick of "Run Health Analysis" (rendered for a selected vehicle, disabled
\* while loading): runPrediction up to its first await, which is the one of
\* loadTelemetry when the telemetry of the render is empty and the one of
\* predict otherwise.  The call keeps the selectedVehicle and the telemetry of
\* the render it was made in.  The updates it asks for are rendered after an
\* effect still to run has run.  observe says whether this call is the one
\* followed to its end
runPrediction(observe) ==
  /\ page = "monitoring"
  /\ selectedVehicle # Null
  /\ ~loading
  /\ observe => ObservedCalls = {}
  /\ InFlight(telemetryCalls) + InFlight(predictionCalls)
       < MaxCallsInFlight - (IF vehiclesCall = "effect" THEN 1 ELSE 0)
  /\ loading' = TRUE
  /\ prediction' = Null
  /\ predictionCalls' =
       AddCall(predictionCalls,
               [vin |-> selectedVehicle.vin,
                await |-> IF Len(telemetry) = 0 THEN "loadTelemetry" ELSE "predict",
                latestTelemetry |-> IF Len(telemetry) = 0 THEN Null ELSE telemetry[1],
                observed |-> observe])
  /\ IF vehiclesCall = "effect"
     THEN /\ SelectedVehicleEffect(selectedVehicle)
          /\ vehiclesCall' = "done"
     ELSE UNCHANGED <<telemetry, telemetryCalls, vehiclesCall>>
  /\ UNCHANGED <<vehicles, selectedVehicle, telemetrySource>>
  /\ UNCHANGED <<worldVars, page, seenHealth, dashVars>>

\* await loadTelemetry() of a runPrediction call returns: loadTelemetry has set
\* telemetry, but the telemetry of the call is the empty one of its render, so
\* the call throws 'No telemetry data available for prediction', and its catch
\* and finally blocks run
PredictionTelemetryResponse(call, ok, at) ==
  /\ page = "monitoring"
  /\ call \in DOMAIN predictionCalls
  /\ call.await = "loadTelemetry"
  /\ predictionCalls' = RemoveCall(predictionCalls, call)
  /\ LoadTelemetryCompletes(call.vin, ok, at)
  /\ prediction' = FallbackPrediction(call.vin, call.latestTelemetry, "noTelemetry")
  /\ UNCHANGED <<vehicles, selectedVehicle, vehiclesCall, telemetryCalls>>
  /\ UNCHANGED <<worldVars, page, seenHealth, dashVars>>

\* PredictResponse without the finally block of runPrediction
PredictResponseWithoutFinally(call, response) ==
  /\ page = "monitoring"
  /\ call \in DOMAIN predictionCalls
  /\ call.await = "predict"
  /\ predictionCalls' = RemoveCall(predictionCalls, call)
  /\ prediction' =
       IF response # Null /\ (response.status = "success" \/ response.risk_score # Undefined)
       THEN ServicePrediction(call.vin, response)
       ELSE FallbackPrediction(call.vin, call.latestTelemetry, "fallback")
  /\ UNCHANGED <<vehicles, selectedVehicle, vehiclesCall, telemetry, loading,
                 telemetryCalls, telemetrySource>>
  /\ UNCHANGED <<worldVars, page, seenHealth, dashVars>>

\* await predictionService.predict of a runPrediction call returns response,
\* or throws (Null here); then the finally block
PredictResponse(call, response) ==
  /\ page = "monitoring"
  /\ call \in DOMAIN predictionCalls
  /\ call.await = "predict"
  /\ predictionCalls' = RemoveCall(predictionCalls, call)
  /\ prediction' =
       IF response # Null /\ (response.status = "success" \/ response.risk_score # Undefined)
       THEN ServicePrediction(call.vin, response)
       ELSE FallbackPrediction(call.vin, call.latestTelemetry, "fallback")
  /\ loading' = FALSE
  /\ UNCHANGED <<vehicles, selectedVehicle, vehiclesCall, telemetry,
                 telemetryCalls, telemetrySource>>
  /\ UNCHANGED <<worldVars, page, seenHealth, dashVars>>

(***************************************************************************)
(* pages/CustomerDashboard.jsx: loadCustomerData                           *)
(***************************************************************************)

\* a record of the appointments collection
Appointment(id, vin, status) == [appointment_id |-> id, vin |-> vin, status |-> status]

\* what schedulingService.getAppointments may return: nothing; a scheduled
\* appointment beside a completed one; one in progress beside a cancelled one
AppointmentLists ==
  { << >>,
    <<Appointment("APT_1", StrVIN001, "scheduled"),
      Appointment("APT_2", StrVIN002, "completed")>>,
    <<Appointment("APT_3", StrVIN002, "in_progress"),
      Appointment("APT_4", StrVIN001, "cancelled")>> }

\* a maintenance alert of the notifications collection
MaintenanceAlert(id, vin, health) ==
  [notification_id |-> id, vin |-> vin, health_score |-> health]

\* what getCustomerNotifications may return as alerts: nothing; alerts on
\* both sides of the limit of 70; alerts at the limit, without a health_score
\* and with the health_score 0
AlertLists ==
  { << >>,
    <<MaintenanceAlert("N1", StrVIN001, 45000),
      MaintenanceAlert("N2", StrVIN002, 85000)>>,
    <<MaintenanceAlert("N3", StrVIN002, 65000),
      MaintenanceAlert("N4", StrVIN001, 70000),
      MaintenanceAlert("N5", StrVIN001, Undefined),
      MaintenanceAlert("N6", StrVIN001, 0)>> }

\* a variant of ActiveAppointments that lets the completed appointments through
ActiveAppointmentsWithCompleted(all) ==
  SelectSeq(all, LAMBDA apt : apt.status = "scheduled" \/ apt.status = "in_progress"
                                \/ apt.status = "completed")

\* allAppointments.filter(apt => apt.status === 'scheduled' ||
\* apt.status === 'in_progress')
ActiveAppointments(all) ==
  SelectSeq(all, LAMBDA apt : apt.status = "scheduled" \/ apt.status = "in_progress")

\* scheduledVins: the VINs of these appointments
ScheduledVins(all) ==
  {ActiveAppointments(all)[k].vin : k \in 1..Len(ActiveAppointments(all))}

\* a variant of FormattedAlerts whose limit is 80 instead of 70
FormattedAlertsUpToEighty(maintenanceAlerts, scheduledVins) ==
  LET shown == SelectSeq(maintenanceAlerts,
                         LAMBDA alert :
                           /\ alert.vin \notin scheduledVins
                           /\ NumOrElse(alert.health_score, 100000) < 80000)
  IN  [k \in 1..Len(shown) |->
         [id |-> shown[k].notification_id,
          vin |-> shown[k].vin,
          health_score |-> shown[k].health_score]]

\* formattedAlerts: the alerts that pass the filter, in the format of the UI
FormattedAlerts(maintenanceAlerts, scheduledVins) ==
  LET shown == SelectSeq(maintenanceAlerts,
                         LAMBDA alert :
                           /\ alert.vin \notin scheduledVins
                           /\ NumOrElse(alert.health_score, 100000) < 70000)
  IN  [k \in 1..Len(shown) |->
         [id |-> shown[k].notification_id,
          vin |-> shown[k].vin,
          health_score |-> shown[k].health_score]]

\* onClose of the ServiceCenterSelectionModal as CustomerDashboard passes it
onClose ==
  /\ showServiceCenterModal' = FALSE
  /\ selectedAlertVehicle' = Null
  /\ rescheduleAppointmentId' = ""

\* setLoading(true) and the call of getCustomerVehicles: loadCustomerData up
\* to its first await
LoadStarts ==
  /\ dashLoading' = TRUE
  /\ dashPc' = "vehicles"
  /\ allAppointments' = << >>

\* the finally block of loadCustomerData; a handleConfirmBooking call that
\* awaits the load through onSuccess goes on at once: onClose(), then
\* setScheduling(false)
LoadFinishes ==
  /\ dashLoading' = FALSE
  /\ dashPc' = "idle"
  /\ bookingCall' = Null
  /\ IF bookingCall # Null THEN onClose ELSE UNCHANGED modalVars

\* the catch block of the outer try, then its finally block
OuterCatch ==
  /\ myVehicles' = getDemoVehicles
  /\ alerts' = << >>
  /\ LoadFinishes
  /\ UNCHANGED <<vehicleHealth, vehiclesList, healthData, allAppointments,
                 appointments>>

\* the mount effect, or the Refresh button of the Service Booking Status card
\* (rendered when loading is false, and covered by the modal when it is
\* open): loadCustomerData up to its first await.  Loads are taken one at a
\* time: none starts while a booking request is under way
loadCustomerData ==
  /\ page = "dashboard"
  /\ dashPc = "idle"
  /\ ~showServiceCenterModal
  /\ bookingCall = Null
  /\ LoadStarts
  /\ UNCHANGED <<myVehicles, vehicleHealth, vehiclesList, healthData,
                 appointments, alerts, modalVars, bookingCall>>
  /\ UNCHANGED <<worldVars, page, seenHealth, monitorVars>>

\* await vehicleService.getCustomerVehicles returned (ok) or threw
DashVehiclesResponse(ok) ==
  /\ page = "dashboard"
  /\ dashPc = "vehicles"
  /\ ok = vehiclesServiceUp
  /\ IF ok
     THEN /\ vehiclesList' = backendVehicles
          /\ myVehicles' = backendVehicles
          /\ dashPc' = "appointments"
          /\ UNCHANGED <<vehicleHealth, dashLoading, healthData, allAppointments,
                         appointments, alerts, modalVars, bookingCall>>
     ELSE OuterCatch
  /\ UNCHANGED <<worldVars, page, seenHealth, monitorVars>>

\* await schedulingService.getAppointments returned the list all (ok) or threw
DashAppointmentsResponse(ok, all) ==
  /\ page = "dashboard"
  /\ dashPc = "appointments"
  /\ IF ok
     THEN /\ allAppointments' = all
          /\ appointments' = ActiveAppointments(all)
          /\ dashPc' = "availability"
          /\ UNCHANGED <<myVehicles, vehicleHealth, dashLoading, vehiclesList,
                         healthData, alerts, modalVars, bookingCall>>
     ELSE OuterCatch
  /\ UNCHANGED <<worldVars, page, seenHealth, monitorVars>>

\* the end of the for loop over vehiclesList: setVehicleHealth(healthData),
\* then the notifications are asked for
AfterHealthLoop(data) ==
  /\ vehicleHealth' = data
  /\ dashPc' = "checkAndCreate"

\* await schedulingService.getAvailability returned or threw (its own try
\* block catches); healthData starts empty and the loop over vehiclesList
\* begins
DashAvailabilityResponse ==
  /\ page = "dashboard"
  /\ dashPc = "availability"
  /\ healthData' = << >>
  /\ IF Len(vehiclesList) = 0
     THEN AfterHealthLoop(<< >>)
     ELSE /\ dashPc' = "telemetry"
          /\ UNCHANGED vehicleHealth
  /\ UNCHANGED <<myVehicles, dashLoading, vehiclesList, allAppointments,
                 appointments, alerts, modalVars, bookingCall>>
  /\ UNCHANGED <<worldVars, page, seenHealth, monitorVars>>

\* the vehicle the loop is at: the first one without an entry in healthData
\* (the VINs of a fleet differ)
LoopVehicle ==
  vehiclesList[CHOOSE k \in 1..Len(vehiclesList) :
                 /\ vehiclesList[k].vin \notin DOMAIN healthData
                 /\ \A j \in 1..(k - 1) : vehiclesList[j].vin \in DOMAIN healthData]

\* prediction_risk of a healthData entry without a latest record's value
RiskOfHealth(healthScore) ==
  IF healthScore < 50000 THEN 650 ELSE IF healthScore < 70000 THEN 350 ELSE 150

\* the healthData entry of one pass of the loop: the try block when the
\* telemetry request returned tel, the catch block when it threw; new Date()
\* reads at
HealthEntry(vin, ok, tel, at) ==
  IF ok
  THEN LET sorted == SortByDateDesc(tel)
           healthScore == getHealthScoreForVehicle(vin, sorted, at)
       IN  [health_score |-> healthScore,
            prediction_risk |->
              IF Len(sorted) > 0
              THEN NumOrElse(sorted[1].prediction_risk, RiskOfHealth(healthScore))
              ELSE RiskOfHealth(healthScore),
            timestamp |->
              IF Len(sorted) > 0 THEN sorted[1].timestamp ELSE ToISOString(at)]
  ELSE LET sample == generateSampleTelemetryForHealth(vin, at)
       IN  [health_score |-> sample.health_score,
            prediction_risk |-> RiskOfHealth(sample.health_score),
            timestamp |-> ToISOString(at)]

\* await vehicleService.getTelemetry(vehicle.vin) returned (ok) or threw, for
\* the vehicle the loop is at
DashTelemetryResponse(ok, at) ==
  /\ page = "dashboard"
  /\ dashPc = "telemetry"
  /\ LET vin == LoopVehicle.vin
         data == (vin :> HealthEntry(vin, ok, TelemetryOf(vin), at)) @@ healthData
     IN  /\ healthData' = data
         /\ IF DOMAIN data = VinsOf(vehiclesList)
            THEN AfterHealthLoop(data)
            ELSE UNCHANGED <<vehicleHealth, dashPc>>
  /\ UNCHANGED <<myVehicles, dashLoading, vehiclesList, allAppointments,
                 appointments, alerts, modalVars, bookingCall>>
  /\ UNCHANGED <<worldVars, page, seenHealth, monitorVars>>

\* await notificationService.checkAndCreate returned (ok) or threw (the inner
\* try block catches and empties the alerts, then the finally block runs)
DashCheckAndCreateResponse(ok) ==
  /\ page = "dashboard"
  /\ dashPc = "checkAndCreate"
  /\ IF ok
     THEN /\ dashPc' = "notifications"
          /\ UNCHANGED <<dashLoading, alerts, modalVars, bookingCall>>
     ELSE /\ alerts' = << >>
          /\ LoadFinishes
  /\ UNCHANGED <<myVehicles, vehicleHealth, vehiclesList, healthData,
                 allAppointments, appointments>>
  /\ UNCHANGED <<worldVars, page, seenHealth, monitorVars>>

\* await notificationService.getCustomerNotifications returned the alerts
\* maintenanceAlerts (ok) or threw, then the finally block
DashNotificationsResponse(ok, maintenanceAlerts) ==
  /\ page = "dashboard"
  /\ dashPc = "notifications"
  /\ alerts' = IF ok
               THEN FormattedAlerts(maintenanceAlerts, ScheduledVins(allAppointments))
               ELSE << >>
  /\ LoadFinishes
  /\ UNCHANGED <<myVehicles, vehicleHealth, vehiclesList, healthData,
                 allAppointments, appointments>>
  /\ UNCHANGED <<worldVars, page, seenHealth, monitorVars>>

\* the page is rendered (loading is false) and no modal covers it
DashboardClickable ==
  /\ page = "dashboard"
  /\ ~dashLoading
  /\ ~showServiceCenterModal

\* the booking button of an alert: handleConfirmService(alert), which opens
\* the modal when the vehicle of the alert is found (and only says so when it
\* is not)
handleConfirmService(alert) ==
  /\ DashboardClickable
  /\ \E k \in 1..Len(alerts) : alerts[k] = alert
  /\ FindVehicle(myVehicles, alert.vin) # Null
  /\ selectedAlertVehicle' = FindVehicle(myVehicles, alert.vin)
  /\ showServiceCenterModal' = TRUE
  /\ UNCHANGED <<myVehicles, vehicleHealth, dashLoading, dashPc, vehiclesList,
                 healthData, allAppointments, appointments, alerts,
                 rescheduleAppointmentId, bookingCall>>
  /\ UNCHANGED <<worldVars, page, seenHealth, monitorVars>>

\* the Reschedule button of a scheduled appointment:
\* handleReschedule(appointmentId)
handleReschedule(appointmentId) ==
  /\ DashboardClickable
  /\ \E k \in 1..Len(appointments) :
       /\ appointments[k].appointment_id = appointmentId
       /\ appointments[k].status = "scheduled"
       /\ FindVehicle(myVehicles, appointments[k].vin) # Null
       /\ selectedAlertVehicle' = FindVehicle(myVehicles, appointments[k].vin)
  /\ rescheduleAppointmentId' = appointmentId
  /\ showServiceCenterModal' = TRUE
  /\ UNCHANGED <<myVehicles, vehicleHealth, dashLoading, dashPc, vehiclesList,
                 healthData, allAppointments, appointments, alerts, bookingCall>>
  /\ UNCHANGED <<worldVars, page, seenHealth, monitorVars>>

\* the modal is rendered: it is open and the dashboard is not loading
ModalShown ==
  /\ page = "dashboard"
  /\ ~dashLoading
  /\ showServiceCenterModal

\* the X and the Cancel button of the modal (never disabled): onClose
CloseModal ==
  /\ ModalShown
  /\ onClose
  /\ UNCHANGED <<myVehicles, vehicleHealth, dashLoading, dashPc, vehiclesList,
                 healthData, allAppointments, appointments, alerts, bookingCall>>
  /\ UNCHANGED <<worldVars, page, seenHealth, monitorVars>>

\* the Confirm button of the modal (disabled while scheduling), with a
\* center, a date and a time selected: handleConfirmBooking up to its await.
\* The call keeps the props of its render: the vehicle, the appointment to
\* reschedule, and handleServiceBooked with the state of that render
handleConfirmBooking ==
  /\ ModalShown
  /\ bookingCall = Null
  /\ bookingCall' = [await |-> "schedule",
                     vin |-> selectedAlertVehicle.vin,
                     appointmentId |-> rescheduleAppointmentId]
  /\ UNCHANGED <<myVehicles, vehicleHealth, dashLoading, dashPc, vehiclesList,
                 healthData, allAppointments, appointments, alerts, modalVars>>
  /\ UNCHANGED <<worldVars, page, seenHealth, monitorVars>>

\* what schedulingService.schedule or reschedule may resolve to: a result
\* with status 'success'; one without status but with an appointment_id; an
\* error result (a missing appointment_id is "" here)
BookingResults ==
  { [status |-> "success", appointment_id |-> "APT_9"],
    [status |-> "none", appointment_id |-> "APT_9"],
    [status |-> "error", appointment_id |-> ""] }

\* the test of handleServiceBooked: result.status === 'success' ||
\* result.appointment_id
BookingSucceeded(result) == result.status = "success" \/ result.appointment_id # ""

\* await schedulingService.schedule (or reschedule) of handleConfirmBooking
\* returned result, or threw (result is Null).  When it threw, the catch
\* block sets the error and the finally block ends the call.  Otherwise
\* handleServiceBooked(result) runs: on a success it closes the modal, removes
\* the alerts of the vehicle when nothing was rescheduled, clears the selected
\* vehicle (through a timer of 100 ms, taken at once here) and awaits
\* loadCustomerData; on anything else it reports the error and returns, and
\* handleConfirmBooking goes on to onClose() and its finally block
BookingResponse(result) ==
  /\ page = "dashboard"
  /\ bookingCall # Null
  /\ bookingCall.await = "schedule"
  /\ IF result = Null
     THEN /\ bookingCall' = Null
          /\ UNCHANGED <<dashLoading, dashPc, allAppointments, alerts, modalVars>>
     ELSE IF BookingSucceeded(result)
     THEN /\ showServiceCenterModal' = FALSE
          /\ rescheduleAppointmentId' = ""
          /\ selectedAlertVehicle' = Null
          /\ alerts' = IF bookingCall.vin # << >> /\ bookingCall.appointmentId = ""
                       THEN SelectSeq(alerts, LAMBDA alert : alert.vin # bookingCall.vin)
                       ELSE alerts
          /\ LoadStarts
          /\ bookingCall' = [await |-> "onSuccess"]
     ELSE /\ onClose
          /\ bookingCall' = Null
          /\ UNCHANGED <<dashLoading, dashPc, allAppointments, alerts>>
  /\ UNCHANGED <<myVehicles, vehicleHealth, vehiclesList, healthData, appointments>>
  /\ UNCHANGED <<worldVars, page, seenHealth, monitorVars>>

\* "Current Health Status" of the Vehicle Health Overview card of a vehicle
\* (the cards are rendered when loading is false)
DashboardHealthShown(vin) == RenderedHealth(vin, vehicleHealth)

(***************************************************************************)
(* Specification                                                           *)
(***************************************************************************)

Next ==
  \/ \E to \in {"dashboard", "monitoring"} : Navigate(to)
  \/ loadCustomerVehicles
  \/ \E ok \in BOOLEAN : CustomerVehiclesResponse(ok)
  \/ MountSelectionEffect
  \/ \E value \in VinsOf(vehicles) \cup {<< >>} : SelectVehicle(value)
  \/ \E vin \in DOMAIN telemetryCalls, ok \in BOOLEAN, at \in ClockReadings :
       TelemetryResponse(vin, ok, at)
  \/ \E observe \in BOOLEAN : runPrediction(observe)
  \/ \E call \in DOMAIN predictionCalls, ok \in BOOLEAN, at \in ClockReadings :
       PredictionTelemetryResponse(call, ok, at)
  \/ \E call \in DOMAIN predictionCalls, response \in PredictResponses \cup {Null} :
       PredictResponse(call, response)
  \/ loadCustomerData
  \/ \E ok \in BOOLEAN : DashVehiclesResponse(ok)
  \/ \E ok \in BOOLEAN, all \in AppointmentLists : DashAppointmentsResponse(ok, all)
  \/ DashAvailabilityResponse
  \/ \E ok \in BOOLEAN, at \in ClockReadings : DashTelemetryResponse(ok, at)
  \/ \E ok \in BOOLEAN : DashCheckAndCreateResponse(ok)
  \/ \E ok \in BOOLEAN, maintenanceAlerts \in AlertLists :
       DashNotificationsResponse(ok, maintenanceAlerts)
  \/ \E k \in 1..Len(alerts) : handleConfirmService(alerts[k])
  \/ \E k \in 1..Len(appointments) : handleReschedule(appointments[k].appointment_id)
  \/ CloseModal
  \/ handleConfirmBooking
  \/ \E result \in BookingResults \cup {Null} : BookingResponse(result)

Spec == Init /\ [][Next]_vars

(***************************************************************************)
(* The synthesizer as section 4.1 of the specification states it, for the  *)
(* properties to refer to                                                  *)
(***************************************************************************)

\* healthTierAndBase: the digit run is "001" when the VIN has no digit
StatedBase(v) ==
  LET run == IF \E k \in 1..Len(v) : IsDigit(v[k]) THEN MatchDigits(v) ELSE Str001
  IN  IF run = Str001 \/ Includes(v, StrVIN001) THEN 48000
      ELSE IF run = Str002 \/ Includes(v, StrVIN002) THEN 72000
      ELSE 82000

\* currentHealthScore: base by tier plus seed mod 7 - 3 (within 30..100 as it
\* stands, and a whole number)
StatedCurrentHealth(v) == StatedBase(v) + ((CharCodeSum(v) % 7) - 3) * 1000

\* the sample of a series with the newest timestamp
Newest(tel) ==
  CHOOSE r \in {tel[k] : k \in 1..Len(tel)} :
    \A k \in 1..Len(tel) : RecordDate(tel[k]) <= RecordDate(r)

\* the monitoring page shows a selected vehicle and no loadTelemetry call is
\* under way
MonitoringSettled ==
  /\ page = "monitoring"
  /\ selectedVehicle # Null
  /\ telemetryCalls = << >>

\* ... and its last loadTelemetry call fell back to the synthetic series of
\* the selected vehicle
MonitoringOnSample ==
  /\ MonitoringSettled
  /\ telemetrySource = "sample"
  /\ Len(telemetry) > 0
  /\ telemetry[1].vin = selectedVehicle.vin

\* the dashboard stored a health score for the VIN, and the backend has no
\* telemetry for it: the score is a generated one
DashboardGenerated(v) ==
  /\ v \in DOMAIN seenHealth
  /\ TelemetryOf(v) = << >>

(***************************************************************************)
(* Properties                                                              *)
(***************************************************************************)

\* C1: when the backend has no telemetry for the selected VIN, the health
\* score the monitoring page shows once loadTelemetry has completed equals the
\* health score the dashboard stored for that VIN in vehicleHealth.
C1_SameHealthOnBothPages ==
  (MonitoringOnSample /\ DashboardGenerated(selectedVehicle.vin))
    => MonitoringHealthShown = seenHealth[selectedVehicle.vin]

\* C2: the current health score the dashboard computes in isolation for a VIN
\* equals the health_score of the sample with the newest timestamp of the
\* series generateSampleTelemetry returns for that VIN.
C2_IsolatedScoreIsNewestSample ==
  (MonitoringOnSample /\ DashboardGenerated(selectedVehicle.vin))
    => Newest(telemetry).health_score = seenHealth[selectedVehicle.vin]

\* C3: two computations of the current health score of a VIN agree, whether
\* the dashboard's copy or the monitoring page's copy (with no telemetry) makes
\* them, and whatever the clock read.
C3_CopiesAgree ==
  (/\ page = "monitoring"
   /\ selectedVehicle # Null
   /\ telemetry = << >>
   /\ DashboardGenerated(selectedVehicle.vin))
    => MonitoringHealthShown = seenHealth[selectedVehicle.vin]

\* C4: every place of the two pages that produces a health score for a VIN
\* without real telemetry yields currentHealthScore(vin): the card of the
\* dashboard for a vehicle without an entry in vehicleHealth, the generated
\* entries of vehicleHealth, and the monitoring page without telemetry.
C4_EveryFallbackIsTheAlgorithm ==
  /\ \A v \in VinsOf(myVehicles) :
       (page = "dashboard" /\ ~dashLoading /\ v \notin DOMAIN vehicleHealth)
         => DashboardHealthShown(v) = StatedCurrentHealth(v)
  /\ \A v \in DOMAIN vehicleHealth :
       TelemetryOf(v) = << >> => vehicleHealth[v].health_score = StatedCurrentHealth(v)
  /\ (page = "monitoring" /\ selectedVehicle # Null /\ telemetry = << >>)
       => MonitoringHealthShown = StatedCurrentHealth(selectedVehicle.vin)

\* C5: the current health score of a VIN lies within base - 3 .. base + 3,
\* base being 48, 72 or 82 by the tier of the VIN, the 001 rule first.
C5_WithinThreeOfBase ==
  /\ \A v \in DOMAIN vehicleHealth :
       TelemetryOf(v) = << >>
         => /\ vehicleHealth[v].health_score >= StatedBase(v) - 3000
            /\ vehicleHealth[v].health_score <= StatedBase(v) + 3000
  /\ (page = "monitoring" /\ selectedVehicle # Null /\ telemetry = << >>)
       => /\ MonitoringHealthShown >= StatedBase(selectedVehicle.vin) - 3000
          /\ MonitoringHealthShown <= StatedBase(selectedVehicle.vin) + 3000

\* C6: for the VIN "VIN001" the seed is 382, the variation is +1 and the
\* current health score is 49.0, on the dashboard and on the monitoring page
\* without telemetry.
C6_VIN001Scores49 ==
  /\ CharCodeSum(StrVIN001) = 382
  /\ (CharCodeSum(StrVIN001) % 7) - 3 = 1
  /\ (page = "monitoring" /\ selectedVehicle = [vin |-> StrVIN001] /\ telemetry = << >>)
       => MonitoringHealthShown = 49000
  /\ (StrVIN001 \in DOMAIN vehicleHealth /\ TelemetryOf(StrVIN001) = << >>)
       => vehicleHealth[StrVIN001].health_score = 49000
  /\ DashboardGenerated(StrVIN001) => seenHealth[StrVIN001] = 49000

\* VIN001 was scored on the dashboard and is now scored, without telemetry, on
\* the monitoring page
C6_Witness ==
  /\ page = "monitoring"
  /\ selectedVehicle = [vin |-> StrVIN001]
  /\ telemetry = << >>
  /\ DashboardGenerated(StrVIN001)
  /\ MonitoringHealthShown = 49000
  /\ seenHealth[StrVIN001] = 49000

\* the synthetic series a loadTelemetry call can put on the page
SampleSeriesShown == {SampleSeries[v][at] : v \in VINS, at \in ClockReadings}

\* the page shows a synthetic series
ShowsSampleSeries == telemetrySource = "sample" /\ telemetry # << >>

\* every health_score of the series is at least 30 and at most 100
ScoresWithinBounds(tel) ==
  \A k \in 1..Len(tel) :
    /\ tel[k].health_score >= 30000
    /\ tel[k].health_score <= 100000

\* ScoresWithinBounds, series by series
ScoresWithinBoundsOf == [tel \in SampleSeriesShown |-> ScoresWithinBounds(tel)]

\* C7: the current health score of every VIN and the health_score of every
\* sample of a synthetic series are at least 30 and at most 100.
C7_ScoresWithinBounds ==
  /\ ShowsSampleSeries
       => (telemetry \in SampleSeriesShown /\ ScoresWithinBoundsOf[telemetry])
  /\ (page = "monitoring" /\ selectedVehicle # Null /\ telemetry = << >>)
       => (MonitoringHealthShown >= 30000 /\ MonitoringHealthShown <= 100000)
  /\ \A v \in DOMAIN vehicleHealth :
       TelemetryOf(v) = << >>
         => /\ vehicleHealth[v].health_score >= 30000
            /\ vehicleHealth[v].health_score <= 100000

\* a synthetic series is shown that holds the lowest score there is, 45.0,
\* after the dashboard stored a generated score for the same VIN
C7_Witness ==
  /\ MonitoringOnSample
  /\ DashboardGenerated(selectedVehicle.vin)
  /\ \E k \in 1..Len(telemetry) : telemetry[k].health_score = 45000

\* the anomaly flag and the error codes of every sample of the series follow
\* the band of its health score
BandCorrelation(tel) ==
  \A k \in 1..Len(tel) :
    /\ tel[k].health_score < 50000
         => /\ tel[k].anomaly_detected = TRUE
            /\ tel[k].error_codes = <<"P0300", "P0171">>
    /\ tel[k].health_score >= 70000
         => /\ tel[k].anomaly_detected = FALSE
            /\ tel[k].error_codes = << >>

\* BandCorrelation, series by series
BandCorrelationOf == [tel \in SampleSeriesShown |-> BandCorrelation(tel)]

\* C8: in every sample of a synthetic series, health_score < 50 comes with
\* anomaly_detected and the error codes P0300 and P0171, health_score >= 70
\* with no anomaly and no error code.
C8_BandCorrelation ==
  ShowsSampleSeries
    => (telemetry \in SampleSeriesShown /\ BandCorrelationOf[telemetry])

\* a synthetic series with samples on both sides of the limit of 70
C8_Witness ==
  /\ MonitoringOnSample
  /\ \E k \in 1..Len(telemetry) : telemetry[k].health_score < 70000
  /\ \E k \in 1..Len(telemetry) : telemetry[k].health_score >= 70000

\* the i of the loop that made the sample at position k of a series
LoopIndex(k) == SampleCount - k

\* the correlated fields of every sample of the series lie in the ranges of
\* the band of its health score
FieldsWithinBand(tel) ==
  \A k \in 1..Len(tel) :
    LET r == tel[k]
        seedPlusI == CharCodeSum(r.vin) + LoopIndex(k)
    IN  /\ r.health_score < 50000
             => /\ r.engine_temperature >= 95000 /\ r.engine_temperature < 103000
                /\ r.oil_pressure >= 28000 /\ r.oil_pressure < 33000
                /\ r.prediction_risk >= 650 /\ r.prediction_risk < 750
        /\ (r.health_score >= 50000 /\ r.health_score < 70000)
             => /\ r.engine_temperature >= 88000 /\ r.engine_temperature < 94000
                /\ r.oil_pressure >= 32000 /\ r.oil_pressure < 38000
                /\ r.prediction_risk >= 350 /\ r.prediction_risk < 450
                /\ r.anomaly_detected = ((seedPlusI % 3) = 0)
        /\ r.health_score >= 70000
             => /\ r.engine_temperature >= 85000 /\ r.engine_temperature < 90000
                /\ r.oil_pressure >= 38000 /\ r.oil_pressure < 43000
                /\ r.prediction_risk >= 150 /\ r.prediction_risk < 200

\* FieldsWithinBand, series by series
FieldsWithinBandOf == [tel \in SampleSeriesShown |-> FieldsWithinBand(tel)]

\* C9: in every sample of a synthetic series the correlated fields lie in the
\* ranges of the band of its health score, and in the medium band
\* anomaly_detected is true exactly when (seed + i) mod 3 = 0.
C9_FieldsWithinBand ==
  ShowsSampleSeries
    => (telemetry \in SampleSeriesShown /\ FieldsWithinBandOf[telemetry])

\* a synthetic series with samples of the low band, and samples of the medium
\* band with and without an anomaly
C9_Witness ==
  /\ MonitoringOnSample
  /\ \E k \in 1..Len(telemetry) : telemetry[k].health_score < 50000
  /\ \E k \in 1..Len(telemetry) :
       /\ telemetry[k].health_score >= 50000
       /\ telemetry[k].health_score < 70000
       /\ telemetry[k].anomaly_detected
  /\ \E k \in 1..Len(telemetry) :
       /\ telemetry[k].health_score >= 50000
       /\ telemetry[k].health_score < 70000
       /\ ~telemetry[k].anomaly_detected

\* the series has 20 samples, each one minute later than the one before it
TwentySamplesAscending(tel) ==
  /\ Len(tel) = 20
  /\ \A k \in 1..(Len(tel) - 1) :
       RecordDate(tel[k + 1]) - RecordDate(tel[k]) = 60000

\* TwentySamplesAscending, series by series
TwentySamplesAscendingOf ==
  [tel \in SampleSeriesShown |-> TwentySamplesAscending(tel)]

\* C10: a synthetic series has exactly 20 samples, and along the returned order
\* each sample is exactly one minute later than the one before it.
C10_TwentySamplesAscending ==
  ShowsSampleSeries
    => (telemetry \in SampleSeriesShown /\ TwentySamplesAscendingOf[telemetry])

\* a synthetic series is shown whose first sample lies in the hour before the
\* hour of its last one
C10_Witness ==
  /\ MonitoringOnSample
  /\ Len(telemetry) = 20
  /\ telemetry[1].timestamp[1] + 1 = telemetry[20].timestamp[1]

\* a VIN in which /\d+/ finds nothing (the empty string among them)
HasNoDigit(v) == \A k \in 1..Len(v) : ~IsDigit(v[k])

\* C11: for the empty VIN and for every VIN without a digit, the fallback
\* health computation gives the value of the fallback defaults (digit run
\* "001", base 48, plus seed mod 7 - 3; 45.0 for the empty string), in the
\* entries the dashboard generates as well as on the monitoring page.
C11_DefaultsForVinsWithoutDigit ==
  /\ StatedCurrentHealth(<< >>) = 45000
  /\ \A v \in DOMAIN vehicleHealth :
       (HasNoDigit(v) /\ TelemetryOf(v) = << >>)
         => vehicleHealth[v].health_score = 48000 + ((CharCodeSum(v) % 7) - 3) * 1000
  /\ (/\ page = "monitoring"
      /\ selectedVehicle # Null
      /\ telemetry = << >>
      /\ HasNoDigit(selectedVehicle.vin))
       => MonitoringHealthShown
            = 48000 + ((CharCodeSum(selectedVehicle.vin) % 7) - 3) * 1000

\* what C12 states of the telemetry state after a loadTelemetry call made with
\* the vehicle of VIN vin selected has completed, its request having returned
\* the backend's records (ok) or failed, with the clock reading at
TelemetryAsStated(vin, ok, at) ==
  /\ telemetry' # << >>
  /\ (ok /\ TelemetryOf(vin) # << >>)
       => /\ Len(telemetry') = Len(TelemetryOf(vin))
          /\ {telemetry'[k] : k \in 1..Len(telemetry')}
               = {TelemetryOf(vin)[k] : k \in 1..Len(TelemetryOf(vin))}
          /\ \A k \in 1..(Len(telemetry') - 1) :
               RecordDate(telemetry'[k]) >= RecordDate(telemetry'[k + 1])
          /\ telemetrySource' = "backend"
  /\ (~ok \/ TelemetryOf(vin) = << >>)
       => /\ Len(telemetry') = 20
          /\ telemetry' = SampleSeries[vin][at]
          /\ \A k \in 1..Len(telemetry') : telemetry'[k].vin = vin

\* C12: every completed loadTelemetry leaves telemetry non-empty: the
\* backend's records sorted by timestamp, newest first, and nothing synthetic,
\* when the backend returned a record; the 20-sample synthetic series of the
\* VIN selected when the call was made, when it returned none or the request
\* failed.
C12_LoadTelemetryFillsTelemetry ==
  [][/\ \A vin \in DOMAIN telemetryCalls, ok \in BOOLEAN, at \in ClockReadings :
          TelemetryResponse(vin, ok, at) => TelemetryAsStated(vin, ok, at)
     /\ \A call \in DOMAIN predictionCalls, ok \in BOOLEAN, at \in ClockReadings :
          PredictionTelemetryResponse(call, ok, at)
            => TelemetryAsStated(call.vin, ok, at)]_vars

\* the telemetry shown is the backend's, whose response had the older record
\* first, and no call is under way
C12_Witness ==
  /\ MonitoringSettled
  /\ telemetrySource = "backend"
  /\ Len(telemetry) = 2
  /\ telemetry[1] = TelemetryOf(selectedVehicle.vin)[2]
  /\ RecordDate(telemetry[1]) > RecordDate(telemetry[2])

\* the health score C13 states for a VIN with backend telemetry: the
\* health_score of the newest record when the record has one, the synthesized
\* current health score when it has none
StatedHealthWithTelemetry(v) ==
  IF Newest(TelemetryOf(v)).health_score # Undefined
  THEN Newest(TelemetryOf(v)).health_score
  ELSE StatedCurrentHealth(v)

\* the entry of vehicleHealth for the VIN was made from the backend's records
\* (its timestamp is the one of the newest record, not a reading of the clock)
DashboardFromBackend(v) ==
  /\ v \in DOMAIN vehicleHealth
  /\ TelemetryOf(v) # << >>
  /\ vehicleHealth[v].timestamp = Newest(TelemetryOf(v)).timestamp

\* the monitoring page shows the backend's records of the selected vehicle
MonitoringOnBackend ==
  /\ MonitoringSettled
  /\ telemetrySource = "backend"
  /\ Len(telemetry) > 0
  /\ telemetry[1].vin = selectedVehicle.vin

\* C13: for a VIN with backend telemetry both pages show the health_score of
\* the newest record whenever it is a number, 0 included, and the synthesized
\* current health score only when the field is missing.
C13_NewestRecordOnBothPages ==
  /\ \A v \in DOMAIN vehicleHealth :
       DashboardFromBackend(v)
         => vehicleHealth[v].health_score = StatedHealthWithTelemetry(v)
  /\ MonitoringOnBackend
       => MonitoringHealthShown = StatedHealthWithTelemetry(selectedVehicle.vin)

\* a sample without its timestamp
WithoutTimestamp(r) == [f \in (DOMAIN r) \ {"timestamp"} |-> r[f]]

\* a call for the VIN of the series at any reading of the clock returns a
\* series equal to it sample by sample in every field but timestamp
SeriesIndependentOfTime(tel) ==
  \A at \in ClockReadings :
    LET other == SampleSeries[tel[1].vin][at]
    IN  /\ Len(other) = Len(tel)
        /\ \A k \in 1..Len(tel) :
             WithoutTimestamp(other[k]) = WithoutTimestamp(tel[k])

\* SeriesIndependentOfTime, series by series
SeriesIndependentOfTimeOf ==
  [tel \in SampleSeriesShown |-> SeriesIndependentOfTime(tel)]

SpeedAndMileage(tel) ==
  /\ \A k \in 1..Len(tel) :
       /\ tel[k].speed = 40 + ((CharCodeSum(tel[k].vin) + LoopIndex(k)) % 30)
       /\ tel[k].speed >= 40
       /\ tel[k].speed <= 69
       /\ tel[k].mileage = 15000 + 10 * LoopIndex(k)
  /\ LET newest == Newest(tel)
     IN  \A k \in 1..Len(tel) : LoopIndex(k) = 0 <=> tel[k] = newest

\* SpeedAndMileage, series by series
SpeedAndMileageOf == [tel \in SampleSeriesShown |-> SpeedAndMileage(tel)]

AllRequestsSettled ==
  /\ page = "monitoring"
  /\ vehiclesCall = "done"
  /\ telemetryCalls = << >>
  /\ predictionCalls = << >>

\* C16: once all requests have settled, the prediction shown for the selected
\* vehicle is null or was computed for the VIN of the selected vehicle,
\* however a change of the selection and a runPrediction call interleave.
C16_PredictionOfSelectedVehicle ==
  (AllRequestsSettled /\ selectedVehicle # Null)
    => (prediction = Null \/ prediction.vin = selectedVehicle.vin)

\* C17: once all loadTelemetry calls have completed, every record of the
\* telemetry state belongs to the VIN of the selected vehicle, in whatever
\* order selections and telemetry responses interleave.
C17_TelemetryOfSelectedVehicle ==
  (AllRequestsSettled /\ selectedVehicle # Null)
    => \A k \in 1..Len(telemetry) : telemetry[k].vin = selectedVehicle.vin

\* C18: when the loadTelemetry call of a runPrediction that started with an
\* empty telemetry state has completed and telemetry is available, the call
\* goes on to the prediction service with its VIN; it takes the way of the
\* error 'No telemetry data available' only if telemetry is still empty.
C18_PredictsAfterLoadingTelemetry ==
  [][\A call \in DOMAIN predictionCalls, ok \in BOOLEAN, at \in ClockReadings :
       (PredictionTelemetryResponse(call, ok, at) /\ telemetry' # << >>)
         => /\ \E next \in DOMAIN predictionCalls' :
                 next.vin = call.vin /\ next.await = "predict"
            /\ ~(prediction' # Null /\ prediction'.path = "noTelemetry")]_vars

\* health scores over 0..100, with both sides of every limit of the fallback
HealthGrid ==
  {0, 1000, 39900, 40000, 59900, 60000, 69900, 70000, 79900, 80000, 100000}

\* C19: the risk score of runPrediction's fallback is within 0..1, and for the
\* latest telemetry record with its other fields as they are it does not
\* increase when the health_score of the record increases over 0..100.
C19_FallbackRiskInverseToHealth ==
  /\ (prediction # Null /\ prediction.path # "service")
       => (prediction.risk_score >= 0 /\ prediction.risk_score <= 1000)
  /\ (page = "monitoring" /\ telemetry # << >>)
       => \A lower \in HealthGrid, higher \in HealthGrid :
            lower < higher
              => /\ FallbackRisk([telemetry[1] EXCEPT !.health_score = higher])
                      <= FallbackRisk([telemetry[1] EXCEPT !.health_score = lower])
                 /\ FallbackRisk([telemetry[1] EXCEPT !.health_score = lower]) <= 1000
                 /\ FallbackRisk([telemetry[1] EXCEPT !.health_score = higher]) >= 0

\* the step that ends the observed runPrediction call: the request it awaits
\* settles (resolves or rejects) and the rest of the handler runs
ObservedCallSettles ==
  \E call \in ObservedCalls :
    \/ \E ok \in BOOLEAN, at \in ClockReadings :
         PredictionTelemetryResponse(call, ok, at)
    \/ \E response \in PredictResponses \cup {Null} : PredictResponse(call, response)

\* Spec, with the request the observed runPrediction call awaits settling in
\* the end
FairSpec == Spec /\ WF_vars(ObservedCallSettles)

\* C20: every runPrediction call made with a vehicle selected ends, and when
\* it has ended loading is false and prediction is not null, whatever the
\* answer to the prediction request was (leaving the page ends the call too,
\* with the component)
C20_RunPredictionFinishes ==
  (page = "monitoring" /\ ObservedCalls # {})
    ~> \/ page = "dashboard"
       \/ /\ ObservedCalls = {}
          /\ ~loading
          /\ prediction # Null

\* a call has ended on the fallback path with the vehicle still selected
C20_Witness ==
  /\ page = "monitoring"
  /\ predictionCalls = << >>
  /\ telemetryCalls = << >>
  /\ ~loading
  /\ prediction # Null
  /\ prediction.path = "fallback"
  /\ selectedVehicle # Null
  /\ prediction.vin = selectedVehicle.vin

\* the score of the VIN v at loop index i before the clamp, as section 4.1
\* states it
UnclampedScore(v, i) == StatedBase(v) + (((CharCodeSum(v) + i) % 7) - 3) * 1000

\* UnclampedScore, for the VINs and the loop indices there are
UnclampedScores ==
  [v \in VINS |-> [i \in 0..(SampleCount - 1) |-> UnclampedScore(v, i)]]

Unclamped(v, i) == UnclampedScores[v][i]

\* every unclamped score lies in 45..85
UnclampedWithinRange ==
  \A v \in VINS, i \in 0..(SampleCount - 1) :
    Unclamped(v, i) >= 45000 /\ Unclamped(v, i) <= 85000

\* every health_score of the series is the unclamped score of its loop index,
\* which lies in 45..85
SeriesUnclamped(tel) ==
  \A k \in 1..Len(tel) :
    /\ Unclamped(tel[k].vin, LoopIndex(k)) >= 45000
    /\ Unclamped(tel[k].vin, LoopIndex(k)) <= 85000
    /\ tel[k].health_score = Unclamped(tel[k].vin, LoopIndex(k))

\* SeriesUnclamped, series by series
SeriesUnclampedOf == [tel \in SampleSeriesShown |-> SeriesUnclamped(tel)]

\* C25: the unclamped score base + ((seed + i) mod 7) - 3 lies in 45..85 for
\* every VIN and every sample index, and the clamp to 30..100 changes no value:
\* every score the copies of the algorithm give out is the unclamped one (for
\* the empty VIN the dashboard's copy returns before it computes a score).
C25_ClampChangesNothing ==
  /\ UnclampedWithinRange
  /\ ShowsSampleSeries
       => (telemetry \in SampleSeriesShown /\ SeriesUnclampedOf[telemetry])
  /\ (page = "monitoring" /\ selectedVehicle # Null /\ telemetry = << >>)
       => MonitoringHealthShown = Unclamped(selectedVehicle.vin, 0)
  /\ \A v \in DOMAIN vehicleHealth :
       (TelemetryOf(v) = << >> /\ v # << >>)
         => vehicleHealth[v].health_score = Unclamped(v, 0)

\* a synthetic series is shown that holds the lowest and the highest score of
\* its tier, beside a generated score of the dashboard for another vehicle
C25_Witness ==
  /\ MonitoringOnSample
  /\ \E k \in 1..Len(telemetry) :
       telemetry[k].health_score = StatedBase(selectedVehicle.vin) - 3000
  /\ \E k \in 1..Len(telemetry) :
       telemetry[k].health_score = StatedBase(selectedVehicle.vin) + 3000
  /\ \E v \in DOMAIN seenHealth :
       /\ v # selectedVehicle.vin
       /\ TelemetryOf(v) = << >>
       /\ seenHealth[v] = Unclamped(v, 0)

\* a step in which a loadCustomerData call whose vehicles request succeeded
\* comes to its end
LoadFinishesAfterVehicles ==
  /\ page = "dashboard"
  /\ page' = "dashboard"
  /\ dashPc \notin {"idle", "vehicles"}
  /\ dashPc' = "idle"

\* C21: when a loadCustomerData call whose vehicles request succeeded
\* finishes, the vehicle list shown is the list the backend returned, whatever
\* became of the later requests of the load.
C21_VehiclesOfTheBackend ==
  [][LoadFinishesAfterVehicles => myVehicles' = backendVehicles]_vars

\* no loadCustomerData call is under way and the dashboard is rendered
DashboardLoaded ==
  /\ page = "dashboard"
  /\ dashPc = "idle"
  /\ ~dashLoading

\* the VINs with an appointment of status 'scheduled' or 'in_progress' among
\* the appointments the last load fetched
VinsWithActiveAppointment ==
  {allAppointments[k].vin : k \in {j \in 1..Len(allAppointments) :
                                     allAppointments[j].status \in {"scheduled", "in_progress"}}}

\* C22: after every completed loadCustomerData every alert of the alerts
\* state has a health_score below 70 and a VIN without an appointment of status
\* 'scheduled' or 'in_progress' among the appointments that load fetched.
C22_AlertsShown ==
  DashboardLoaded
    => \A k \in 1..Len(alerts) :
         /\ alerts[k].health_score # Undefined
         /\ alerts[k].health_score < 70000
         /\ alerts[k].vin \notin VinsWithActiveAppointment

\* a load has ended that showed the alert of VIN002 (health 65) and held back
\* the alerts of VIN001, which has a scheduled appointment
C22_Witness ==
  /\ DashboardLoaded
  /\ Len(alerts) = 1
  /\ alerts[1].vin = StrVIN002
  /\ alerts[1].health_score = 65000
  /\ StrVIN001 \in VinsWithActiveAppointment

\* C23: every appointment of the appointments state has the status
\* 'scheduled' or 'in_progress', in every state of the dashboard.
C23_OnlyActiveAppointments ==
  \A k \in 1..Len(appointments) :
    appointments[k].status \in {"scheduled", "in_progress"}

\* the dashboard shows an appointment, and the list the load fetched held a
\* completed or cancelled one
C23_Witness ==
  /\ DashboardLoaded
  /\ appointments # << >>
  /\ \E k \in 1..Len(allAppointments) :
       allAppointments[k].status \in {"completed", "cancelled"}

\* C24: handleConfirmBooking leaves the modal open when the schedule or
\* reschedule call throws or returns a result that is no success (neither
\* status 'success' nor an appointment_id).
C24_ModalStaysOpenWithoutSuccess ==
  [][\A result \in BookingResults \cup {Null} :
       ( /\ BookingResponse(result)
         /\ showServiceCenterModal
         /\ (result = Null \/ ~BookingSucceeded(result)) )
         => showServiceCenterModal']_vars

====
